---- MODULE Spec2Model ----
(***************************************************************************)
(* A model of src/net-utils.ts of the Shiny VS Code extension: the         *)
(* readiness orchestrator openBrowserWhenReady, the two port probes, the  *)
(* bounded retry they are driven by, and the preview launcher.            *)
(*                                                                         *)
(* Time is a wall clock in milliseconds that advances in steps; a timer   *)
(* fires at the first clock value at or after its due time.  The module   *)
(* holds three specifications over the same variables:                    *)
(*   Spec       one call of openBrowserWhenReady and its environment       *)
(*   SpecRetry  retryUntilTimeout alone, over a scripted probe             *)
(*   SpecBind   waitUntilServerPortIsAvailable and isServerPortAvailable   *)
(*   SpecPort   suggestPort                                                *)
(*   SpecBrowser  openBrowser, called with any url                         *)
(*   SpecLive   Spec with the event loop's fairness, for liveness          *)
(***************************************************************************)
EXTENDS Integers, Sequences, FiniteSets, TLC

VARIABLES
    now,                \* Date.now()
    waits,              \* the retryUntilTimeout invocations in flight, in port order
    previewType,        \* configuration shiny.previewType
    hostPreview,        \* whether getExtensionHostPreview() yielded a hook when last asked
    session,            \* the arguments of the running openBrowserWhenReady invocation
    calls,              \* the arguments of every invocation so far (first call, recursions)
    phase,              \* where the running invocation is
    raceResult,         \* what withProgress resolved with: "pending", "array", "closed"
    termExit,           \* terminal.exitStatus !== undefined
    closedTerminals,    \* whether onDidCloseTerminal has fired for the call's terminal: {} or {terminal}
    subscriptions,      \* listeners registered with onDidCloseTerminal
    openPorts,          \* ports a client can connect to
    openedInTime,       \* the primary port started to accept connections before a deadline it was waited for with
    lastAnswer,         \* the last answer to a timed-out prompt ("none": no answer yet)
    launches,           \* the urls openBrowser was called with by the orchestrator
    presented,          \* the presentation actions openBrowser performed
    prompts,            \* timed-out prompts shown
    offered,            \* the items of the last prompt
    errors,             \* "Shiny terminal was closed" error messages shown
    warnings,           \* console.warn lines
    shows,              \* terminal.show() calls
    reports,            \* progress.report calls of the running session
    lastProgressReport, \* the closure variable of reportProgress
    progressSum,        \* sum of (now - lastProgressReport) over the session's reports
    plan,               \* SpecRetry: the attempt on which the scripted probe succeeds (0: never)
    lastLatency,        \* SpecRetry: how long the last probe attempt took
    failedLatency,      \* SpecRetry: how long the failed probe attempts took, in all
    returnedAt,         \* SpecRetry: when retryUntilTimeout returned (-1: not yet)
    listeners,          \* SpecBind: test servers holding the port
    external,           \* SpecBind: another process holds the port
    servers,            \* SpecBind: test servers created so far (the last one is the attempt's)
    delivered,          \* SpecBind: the results isServerPortAvailable delivered, and in what state
    waitResult,         \* SpecBind: what the last waitUntilServerPortIsAvailable returned
    portPc,             \* SpecPort: where the call of suggestPort is
    assigned,           \* SpecPort: the ports the OS assigned to the call's test servers
    portHeld,           \* SpecPort: the assigned ports a test server still listens on
    suggested           \* SpecPort: the port suggestPort returned (0: none)

vars == <<now, waits, previewType, hostPreview, session, calls, phase, raceResult,
          termExit, closedTerminals, subscriptions, openPorts, openedInTime, lastAnswer,
          launches, presented, prompts, offered, errors, warnings, shows, reports,
          lastProgressReport, progressSum, plan, lastLatency, failedLatency,
          returnedAt, listeners, external, servers, delivered, waitResult, portPc,
          assigned, portHeld, suggested>>

\* The environment of openBrowserWhenReady, the state of its running
\* invocation, and what the user has seen of it.
envVars == <<previewType, termExit, closedTerminals, openPorts, openedInTime>>
sessionVars == <<session, calls, subscriptions, reports, lastProgressReport, progressSum>>
uiVars == <<hostPreview, lastAnswer, launches, presented, prompts, offered, errors,
            warnings, shows>>
orchVars == <<envVars, sessionVars, uiVars, phase, raceResult>>

retryVars == <<plan, lastLatency, failedLatency, returnedAt>>

bindVars == <<listeners, external, servers, delivered, waitResult>>

portVars == <<portPc, assigned, portHeld, suggested>>

(***************************************************************************)
(* Bounds of the model and constants of the program.                       *)
(***************************************************************************)
MaxSessions == 2            \* invocations of openBrowserWhenReady per call (first + escalations)
MaxTimeoutSeconds == 40     \* the largest configured shiny.timeoutOpenBrowser
ClockStep == 10000          \* Spec: milliseconds per clock step after the fine horizon
FineHorizon == 240          \* Spec: until then the clock steps by the retry interval
ShortTimeoutSteps == 2      \* the shortest timeout a caller passes, in retry intervals
MaxRetryTimeout == 6        \* SpecRetry: the largest timeout, in clock steps of 1 ms
MaxRetryInterval == 2       \* SpecRetry: the largest retry interval
MaxLatency == 2             \* SpecRetry: the longest a probe attempt takes
MaxPlan == 3                \* SpecRetry: the latest attempt on which the probe succeeds
MaxOverrun == 3             \* SpecRetry: how long past the deadline a hung attempt is followed
MaxBindCalls == 3           \* SpecBind: calls of waitUntilServerPortIsAvailable
MaxBindTimeoutSteps == 2    \* SpecBind: the largest timeout passed, in retry intervals
MaxBinds == 3               \* SpecPort: test servers one call of suggestPort creates
MaxOpenCalls == 2           \* SpecBrowser: calls of openBrowser

DEFAULT_TIMEOUT_SECONDS == 10
ESCALATED_TIMEOUT == 30000
SOCKET_TIMEOUT == 1000
DEFAULT_RETRY_INTERVAL == 80
BIND_RETRY_INTERVAL == 80
DEFAULT_BIND_TIMEOUT == 1000

CallPorts == <<3838, 3839>>
Terminals == {"shiny", "other"}
PreviewTypes == {"none", "external", "internal", "other"}
PreviewSettings == PreviewTypes \cup {"unset", ""}

(***************************************************************************)
(* retryUntilTimeout (retry-utils.ts is not among the sources; modelled   *)
(* from spec section 4.1).  A wait is one invocation: it is at the head   *)
(* of its loop only inside a step; between steps it has an attempt in     *)
(* flight ("attempt"), sleeps between attempts ("sleep") or has returned  *)
(* ("done").                                                               *)
(***************************************************************************)
\* The loop head: another attempt while the deadline has not passed,
\* otherwise return absence.
RetryLoopHead_attemptAtDeadline(w, t) ==
    IF t <= w.start + w.timeout
    THEN [w EXCEPT !.pc = "attempt", !.attempts = @ + 1, !.attemptStart = t]
    ELSE [w EXCEPT !.pc = "done", !.result = "undefined"]

RetryLoopHead(w, t) ==
    IF t < w.start + w.timeout
    THEN [w EXCEPT !.pc = "attempt", !.attempts = @ + 1, !.attemptStart = t]
    ELSE [w EXCEPT !.pc = "done", !.result = "undefined"]

\* The call: the deadline is fixed, and the first trip round the loop runs
\* synchronously.
retryUntilTimeout(timeoutMs, retryIntervalMs, t) ==
    RetryLoopHead([pc |-> "head", start |-> t, timeout |-> timeoutMs,
                   interval |-> retryIntervalMs, wake |-> t, attempts |-> 0,
                   attemptStart |-> t, result |-> "pending"], t)

\* The probe returned a value: it is the result, and the loop ends.
RetrySuccess_keepsPolling(w, value, t) ==
    [w EXCEPT !.pc = "sleep", !.wake = t + w.interval]

RetrySuccess(w, value, t) ==
    [w EXCEPT !.pc = "done", !.result = value]

\* The probe threw: sleep for the interval, then go round again.
RetryFailure(w, t) ==
    [w EXCEPT !.pc = "sleep", !.wake = t + w.interval]

\* The sleep is over: back to the loop head.
RetryWake(w, t) == RetryLoopHead(w, t)

Running(w) == w.pc # "done"
AllDone(ws) == \A i \in DOMAIN ws : ~Running(ws[i])

\* A sleep that is over, or an attempt that has used up the time `maxLatency`
\* an attempt can take: a step is due before the clock moves on.
TimerDue(w, maxLatency) ==
    \/ w.pc = "sleep" /\ w.wake <= now
    \/ w.pc = "attempt" /\ w.attemptStart + maxLatency <= now

Tick(step, maxLatency) ==
    /\ \E i \in DOMAIN waits : Running(waits[i])
    /\ \A i \in DOMAIN waits : ~TimerDue(waits[i], maxLatency)
    /\ now' = now + step

(***************************************************************************)
(* Collaborators of the orchestrator.                                      *)
(***************************************************************************)
\* getRemoteSafeUrl (extension-api-utils, not among the sources): the url of
\* a local port, a function of the port alone (spec section 6).
getRemoteSafeUrl(p) == <<"http://localhost", p>>

\* isPortOpen: what the promise settles with on the first socket event.
isPortOpen(event) ==
    CASE event = "connect" -> "resolve"
      [] event = "timeout" -> "reject"
      [] event = "error" -> "reject"
      [] event = "close" -> "reject"

SocketEvents == {"connect", "timeout", "error", "close"}

\* configShinyTimeoutOpenBrowser: seconds to milliseconds.
configShinyTimeoutOpenBrowser(seconds) == seconds * 1000

\* configShinyPreviewType, lines 214-218: the setting, or "internal" when it
\* is unset or empty.
configShinyPreviewType(setting) ==
    IF setting \in {"unset", ""} THEN "internal" ELSE setting

\* openBrowser, without the returns that end its cases: the internal case
\* with a hook runs on into the default.
openBrowser_runsOn(url, type, hook) ==
    CASE type = "none" -> <<>>
      [] type = "external" ->
            IF url = "about:blank" THEN <<>> ELSE <<[action |-> "openExternal", url |-> url]>>
      [] type = "internal" /\ hook -> <<[action |-> "hostPreview", url |-> url],
                                        [action |-> "simpleBrowser", url |-> url]>>
      [] OTHER -> <<[action |-> "simpleBrowser", url |-> url]>>

\* openBrowser: the presentation actions performed for a url, by preview type.
openBrowser(url, type, hook) ==
    CASE type = "none" -> <<>>
      [] type = "external" ->
            IF url = "about:blank" THEN <<>> ELSE <<[action |-> "openExternal", url |-> url]>>
      [] type = "internal" /\ hook -> <<[action |-> "hostPreview", url |-> url]>>
      [] OTHER -> <<[action |-> "simpleBrowser", url |-> url]>>

(***************************************************************************)
(* openBrowserWhenReady.                                                   *)
(***************************************************************************)
Ports(args) == <<args.port>> \o args.additionalPorts

\* Line 140: the preview type that makes the call return at once.
PreviewSuppressed_never(type) == FALSE

PreviewSuppressed(type) == type = "none"

\* Lines 155-158, reportProgress at time t: the time the increment stands
\* for, which is reported as a percentage of the timeout; `last` is
\* lastProgressReport, `start` its first value.
ProgressIncrement_absolute(t, last, start) == t - start

ProgressIncrement(t, last, start) == t - last

\* Promise.all of the waits, raced against the terminal-closed promise: once
\* every wait has returned, a race still pending resolves with the array.
Settle_ignoresWaits(ws, race) == race

Settle_anyWait(ws, race) ==
    IF race = "pending" /\ \E i \in DOMAIN ws : ~Running(ws[i]) THEN "array" ELSE race

Settle(ws, race) == IF race = "pending" /\ AllDone(ws) THEN "array" ELSE race

\* Line 180: the result is not the array, or the terminal has an exit status.
TerminalGone_never(race, args, exited) == FALSE

TerminalGone_notArrayOnly(race, args, exited) == race # "array"

TerminalGone(race, args, exited) ==
    race # "array" \/ (args.terminal # "none" /\ exited)

\* Line 185: some port's wait did not return true.
AnyPortFailed_primaryOnly(ws) == ws[1].result # "true"

AnyPortFailed(ws) == \E i \in DOMAIN ws : ws[i].result # "true"

\* Lines 189-190: the items of the timed-out prompt.
PromptItems_always(args) == <<"Show Shiny process", "Keep waiting">>

PromptItems(args) ==
    <<IF args.terminal # "none" THEN "Show Shiny process" ELSE "", "Keep waiting">>

\* Line 192: the answer that asks for another session.
KeepsWaiting_unlessDismissed(action) == action # "undefined"

KeepsWaiting(action) == action = "Keep waiting"

\* Lines 201-203: the answer that reveals the terminal, when there is one.
RevealsTerminal(action, args) ==
    action = "Show Shiny process" /\ args.terminal # "none"

\* Line 193: the terminal has exited when the user answers "Keep waiting".
ExitedAtResponse_unchecked(args, exited) == FALSE

ExitedAtResponse(args, exited) == args.terminal # "none" /\ exited

\* Line 199: the arguments of the recursive call.
RecurseArgs_doubled(args) ==
    [port |-> args.port, additionalPorts |-> args.additionalPorts,
     terminal |-> args.terminal, timeout |-> 2 * args.timeout]

RecurseArgs(args) ==
    [port |-> args.port, additionalPorts |-> args.additionalPorts,
     terminal |-> args.terminal, timeout |-> ESCALATED_TIMEOUT]

\* Line 210: the port whose url is previewed.
PreviewPort_last(args) == Ports(args)[Len(Ports(args))]

PreviewPort(args) == args.port

\* Lines 140-178, up to the await of withProgress: return at once when the
\* preview is suppressed; otherwise start one wait per port (each makes its
\* first attempt, which reports progress) and subscribe to terminal closes.
Invoke(args) ==
    /\ session' = args
    /\ calls' = Append(calls, args)
    /\ IF PreviewSuppressed(configShinyPreviewType(previewType))
       THEN /\ phase' = "done"
            /\ UNCHANGED <<waits, raceResult, subscriptions, reports,
                           lastProgressReport, progressSum>>
       ELSE LET ws == [i \in 1..Len(Ports(args)) |->
                          retryUntilTimeout(args.timeout, DEFAULT_RETRY_INTERVAL, now)]
            IN  /\ waits' = ws
                /\ lastProgressReport' = now
                /\ progressSum' = Len(ws) * ProgressIncrement(now, now, now)
                /\ reports' = Cardinality({i \in DOMAIN ws : ws[i].pc = "attempt"})
                /\ subscriptions' = subscriptions + (IF args.terminal # "none" THEN 1 ELSE 0)
                /\ raceResult' = Settle(ws, "pending")
                /\ phase' = "probing"

\* The extension calls openBrowserWhenReady.
Enter ==
    /\ phase = "entry"
    /\ Invoke(session)
    /\ UNCHANGED <<now, envVars, uiVars, retryVars, bindVars,
                   portVars>>

\* Lines 162-165, one attempt of one port's wait settles: isPortOpen resolved
\* or rejected.  A connect needs the port to accept connections; an error
\* or close comes from a port that does not; the socket timeout needs its
\* time to have passed.
ProbeSettle(i, event) ==
    /\ phase # "entry"
    /\ waits[i].pc = "attempt"
    /\ CASE event = "connect" -> Ports(session)[i] \in openPorts
         [] event = "timeout" -> /\ Ports(session)[i] \notin openPorts
                                 /\ waits[i].attemptStart + SOCKET_TIMEOUT <= now
         [] OTHER -> Ports(session)[i] \notin openPorts
    /\ LET w == IF isPortOpen(event) = "resolve"
                THEN RetrySuccess(waits[i], "true", now)
                ELSE RetryFailure(waits[i], now)
           ws == [waits EXCEPT ![i] = w]
       IN  /\ waits' = ws
           /\ raceResult' = Settle(ws, raceResult)
    /\ UNCHANGED <<now, envVars, sessionVars, uiVars, phase, retryVars, bindVars,
                   portVars>>

\* Lines 154-165, the sleep of one port's wait is over: the wait returns
\* absence, or calls the probe again, which reports progress first.
Wake(i) ==
    /\ phase # "entry"
    /\ waits[i].pc = "sleep"
    /\ waits[i].wake <= now
    /\ LET w == RetryWake(waits[i], now)
           ws == [waits EXCEPT ![i] = w]
       IN  /\ waits' = ws
           /\ raceResult' = Settle(ws, raceResult)
           /\ IF w.pc = "attempt"
              THEN /\ reports' = reports + 1
                   /\ progressSum' = progressSum + ProgressIncrement(now, lastProgressReport,
                                                                    waits[i].start)
                   /\ lastProgressReport' = now
              ELSE UNCHANGED <<reports, progressSum, lastProgressReport>>
    /\ UNCHANGED <<now, envVars, session, calls, subscriptions, uiVars, phase,
                   retryVars, bindVars,
                   portVars>>

\* Lines 180-191, withProgress has resolved: give up when the terminal is
\* gone, prompt when a port failed, otherwise resolve the preview url.
Inspect ==
    /\ phase = "probing"
    /\ raceResult # "pending"
    /\ IF TerminalGone(raceResult, session, termExit)
       THEN /\ warnings' = Append(warnings, "terminal closed")
            /\ phase' = "done"
            /\ UNCHANGED <<prompts, offered>>
       ELSE IF AnyPortFailed(waits)
       THEN /\ prompts' = prompts + 1
            /\ offered' = PromptItems(session)
            /\ phase' = "prompt"
            /\ UNCHANGED warnings
       ELSE /\ phase' = "resolving"
            /\ UNCHANGED <<warnings, prompts, offered>>
    /\ UNCHANGED <<now, waits, envVars, sessionVars, raceResult, hostPreview, lastAnswer,
                   launches, presented, errors, shows, retryVars, bindVars,
                   portVars>>

\* Lines 210-211: getRemoteSafeUrl has resolved; openBrowser is called, and
\* asks for the host's preview hook.
Launch ==
    /\ phase = "resolving"
    /\ LET url == getRemoteSafeUrl(PreviewPort(session))
       IN  /\ launches' = Append(launches, url)
           /\ hostPreview' \in BOOLEAN
           /\ presented' = presented \o openBrowser(url, configShinyPreviewType(previewType),
                                                   hostPreview')
    /\ phase' = "done"
    /\ UNCHANGED <<now, waits, envVars, sessionVars, raceResult, lastAnswer, prompts,
                   offered, errors, warnings, shows, retryVars, bindVars,
                   portVars>>

\* Lines 192-207: the user answers the prompt with one of its items, or
\* dismisses it ("undefined").
Answer(action) ==
    /\ phase = "prompt"
    /\ action \in {offered[k] : k \in DOMAIN offered} \cup {"undefined"}
    /\ lastAnswer' = action
    /\ IF KeepsWaiting(action)
       THEN IF ExitedAtResponse(session, termExit)
            THEN /\ errors' = errors + 1
                 /\ phase' = "done"
                 /\ UNCHANGED <<waits, sessionVars, raceResult, warnings, shows>>
            ELSE /\ Len(calls) < MaxSessions
                 /\ Invoke(RecurseArgs(session))
                 /\ UNCHANGED <<errors, warnings, shows>>
       ELSE /\ shows' = shows + (IF RevealsTerminal(action, session) THEN 1 ELSE 0)
            /\ warnings' = Append(warnings, "failed to connect")
            /\ phase' = "done"
            /\ UNCHANGED <<waits, sessionVars, raceResult, errors>>
    /\ UNCHANGED <<now, envVars, hostPreview, launches, presented, prompts, offered,
                   retryVars, bindVars,
                   portVars>>

(***************************************************************************)
(* The environment of the orchestrator.                                    *)
(***************************************************************************)
\* The Shiny app starts to listen on one of the ports.  For the primary
\* port: whether that is before the deadline of the wait for it.
PortOpens(p) ==
    /\ p \notin openPorts
    /\ openPorts' = openPorts \cup {p}
    /\ openedInTime' =
          IF p = session.port
          THEN \/ phase = "entry"
               \/ phase = "probing" /\ now < waits[1].start + waits[1].timeout
          ELSE openedInTime
    /\ UNCHANGED <<now, waits, previewType, termExit, closedTerminals, sessionVars,
                   uiVars, phase, raceResult, retryVars, bindVars,
                   portVars>>

\* The process of the call's terminal exits: exitStatus is set.
TerminalExit ==
    /\ session.terminal # "none"
    /\ ~termExit
    /\ termExit' = TRUE
    /\ UNCHANGED <<now, waits, previewType, closedTerminals, openPorts, openedInTime,
                   sessionVars, uiVars, phase, raceResult, retryVars, bindVars,
                   portVars>>

\* Lines 99-109, onDidCloseTerminal fires for a terminal: the listener of
\* the running session resolves its promise when it is the call's terminal,
\* and that settles a race still pending.  A closed terminal has an exit
\* status.
TerminalClosed(t) ==
    /\ t \notin closedTerminals
    /\ closedTerminals' = IF t = session.terminal THEN closedTerminals \cup {t}
                          ELSE closedTerminals
    /\ termExit' = (termExit \/ t = session.terminal)
    /\ raceResult' = IF /\ phase = "probing"
                        /\ session.terminal # "none"
                        /\ t = session.terminal
                        /\ raceResult = "pending"
                     THEN "closed" ELSE raceResult
    /\ UNCHANGED <<now, waits, previewType, openPorts, openedInTime, sessionVars,
                   uiVars, phase, retryVars, bindVars,
                   portVars>>

TickOrch ==
    /\ phase # "entry"
    /\ Tick(IF now < FineHorizon THEN DEFAULT_RETRY_INTERVAL ELSE ClockStep, SOCKET_TIMEOUT)
    /\ UNCHANGED <<waits, orchVars, retryVars, bindVars,
                   portVars>>

\* The timeouts a call is made with: one passed by the caller, and
\* configShinyTimeoutOpenBrowser() for the default and the largest setting.
TimeoutChoices == {ShortTimeoutSteps * DEFAULT_RETRY_INTERVAL,
                   configShinyTimeoutOpenBrowser(DEFAULT_TIMEOUT_SECONDS),
                   configShinyTimeoutOpenBrowser(MaxTimeoutSeconds)}

\* SpecRetry's and SpecBind's own variables, where they are not in use.
RetryIdle ==
    /\ plan = 0
    /\ lastLatency = 0
    /\ failedLatency = 0
    /\ returnedAt = -1

BindIdle ==
    /\ listeners = {}
    /\ external = FALSE
    /\ servers = 0
    /\ delivered = <<>>
    /\ waitResult = "none"

PortIdle ==
    /\ portPc = "idle"
    /\ assigned = <<>>
    /\ portHeld = {}
    /\ suggested = 0

Init ==
    /\ now = 0
    /\ waits = <<>>
    /\ previewType \in PreviewTypes
    /\ hostPreview = FALSE
    /\ session \in [port : {CallPorts[1]},
                    additionalPorts : {<<>>, <<CallPorts[2]>>},
                    terminal : {"none", "shiny"},
                    timeout : TimeoutChoices]
    /\ calls = <<>>
    /\ phase = "entry"
    /\ raceResult = "pending"
    /\ termExit = FALSE
    /\ closedTerminals = {}
    /\ subscriptions = 0
    /\ openPorts = {}
    /\ openedInTime = FALSE
    /\ lastAnswer = "none"
    /\ launches = <<>>
    /\ presented = <<>>
    /\ prompts = 0
    /\ offered = <<>>
    /\ errors = 0
    /\ warnings = <<>>
    /\ shows = 0
    /\ reports = 0
    /\ lastProgressReport = 0
    /\ progressSum = 0
    /\ RetryIdle
    /\ BindIdle
    /\ PortIdle

Next ==
    \/ Enter
    \/ \E i \in DOMAIN waits : \E event \in SocketEvents : ProbeSettle(i, event)
    \/ \E i \in DOMAIN waits : Wake(i)
    \/ Inspect
    \/ Launch
    \/ \E action \in {"Keep waiting", "Show Shiny process", "", "undefined"} : Answer(action)
    \/ \E p \in {Ports(session)[k] : k \in DOMAIN Ports(session)} : PortOpens(p)
    \/ TerminalExit
    \/ \E t \in Terminals : TerminalClosed(t)
    \/ TickOrch

Spec == Init /\ [][Next]_vars

(***************************************************************************)
(* Properties of openBrowserWhenReady, checked under Spec.                 *)
(***************************************************************************)
AllPortsReportedOpen == \A i \in DOMAIN waits : waits[i].result = "true"
TerminalExited == session.terminal # "none" /\ termExit

\* C1: a probing session whose race resolved with the array of per-port
\* results, its terminal (if any) without exit status, goes on to launch the
\* preview if and only if every port was reported open; when some port's
\* wait returned absence it shows the prompt instead and launches nothing.
C1_ReadyIffAllPortsOpen ==
    [][/\ (phase = "probing" /\ phase' # "probing" /\ raceResult = "array"
              /\ ~TerminalExited)
          => IF AllPortsReportedOpen
             THEN phase' = "resolving" /\ prompts' = prompts
             ELSE phase' = "prompt" /\ prompts' = prompts + 1 /\ launches' = launches
       /\ (phase = "resolving" /\ phase' # "resolving")
          => /\ AllPortsReportedOpen
             /\ phase' = "done"
             /\ Len(launches') = Len(launches) + 1
       /\ launches' # launches => phase = "resolving"
       /\ phase = "prompt" => launches' = launches /\ ~AllPortsReportedOpen
      ]_vars

\* The primary port was reported open, the auxiliary port was not, and the
\* prompt is up.
C1_Witness ==
    /\ phase = "prompt"
    /\ Len(waits) = 2
    /\ waits[1].result = "true"
    /\ waits[2].result = "undefined"
    /\ launches = <<>>

\* The other side: both ports were reported open and the preview was launched.
NoAuxiliaryPorts == calls # <<>> /\ calls[1].additionalPorts = <<>>
NoTerminal == calls # <<>> /\ calls[1].terminal = "none"

\* C2 as stated: at most one launch per call, and with no auxiliary port and
\* no terminal, a primary port that opens within the deadline is previewed
\* exactly once, by the url of the primary port.
C2_Original ==
    /\ Len(launches) <= 1
    /\ \A k \in DOMAIN launches : launches[k] = getRemoteSafeUrl(calls[1].port)
    /\ (phase = "done" /\ NoAuxiliaryPorts /\ NoTerminal /\ previewType # "none"
           /\ openedInTime)
       => Len(launches) = 1

\* C2, amended: at most one launch per call, always by the url of the primary
\* port; with no auxiliary port and no terminal, exactly one launch when the
\* wait for the primary port reported it open (an attempt begun before the
\* deadline connected).
C2_LaunchedAtMostOnce ==
    /\ Len(launches) <= 1
    /\ \A k \in DOMAIN launches : launches[k] = getRemoteSafeUrl(calls[1].port)
    /\ (phase = "done" /\ NoAuxiliaryPorts /\ NoTerminal /\ Len(waits) = 1
           /\ waits[1].result = "true")
       => Len(launches) = 1

\* The preview was launched after an escalation, for a call with an
\* auxiliary port.
C2_Witness ==
    /\ phase = "done"
    /\ Len(calls) = 2
    /\ calls[1].additionalPorts # <<>>
    /\ launches = <<getRemoteSafeUrl(calls[1].port)>>

\* C3: once the terminal's closed event has settled the race, no preview is
\* launched, no prompt or error is shown, the terminal is not revealed and
\* no session is started, then or later, whatever the abandoned waits do;
\* the invocation ends with the one warning.
C3_ClosedTerminalAbandons ==
    [][raceResult = "closed"
       => /\ raceResult' = "closed"
          /\ launches = <<>> /\ launches' = launches
          /\ presented' = presented
          /\ prompts' = prompts
          /\ errors' = errors
          /\ shows' = shows
          /\ calls' = calls
          /\ session' = session
          /\ IF phase = "probing" /\ phase' # "probing"
             THEN phase' = "done" /\ warnings' = Append(warnings, "terminal closed")
             ELSE phase' = phase /\ warnings' = warnings
      ]_vars

\* The terminal closed first, the invocation has ended, and the abandoned
\* waits went on to find every port open.
C3_Witness ==
    /\ raceResult = "closed"
    /\ phase = "done"
    /\ Len(waits) = 2
    /\ AllPortsReportedOpen

C6_SuppressedPreviewDoesNothing ==
    (previewType = "none" /\ phase # "entry")
    => /\ phase = "done"
       /\ waits = <<>>
       /\ reports = 0
       /\ subscriptions = 0
       /\ prompts = 0
       /\ errors = 0
       /\ warnings = <<>>
       /\ launches = <<>>
       /\ presented = <<>>
       /\ Len(calls) = 1
       /\ now = 0

\* The call was made with preview type "none" and a terminal, and returned.
C6_Witness ==
    /\ previewType = "none"
    /\ phase = "done"
    /\ session.terminal # "none"
    /\ session.additionalPorts # <<>>

(***************************************************************************)
(* SpecRetry: retryUntilTimeout alone.  The probe is scripted: it throws   *)
(* until attempt number `plan` and returns a value from then on (plan 0:  *)
(* it always throws).  An attempt takes up to MaxLatency; the clock steps *)
(* by 1 ms, and a sleep ends exactly when it is due.                       *)
(***************************************************************************)
OrchIdle ==
    /\ previewType = "none"
    /\ hostPreview = FALSE
    /\ session = [port |-> CallPorts[1], additionalPorts |-> <<>>, terminal |-> "none",
                  timeout |-> 0]
    /\ calls = <<>>
    /\ phase = "idle"
    /\ raceResult = "pending"
    /\ termExit = FALSE
    /\ closedTerminals = {}
    /\ subscriptions = 0
    /\ openPorts = {}
    /\ openedInTime = FALSE
    /\ lastAnswer = "none"
    /\ launches = <<>>
    /\ presented = <<>>
    /\ prompts = 0
    /\ offered = <<>>
    /\ errors = 0
    /\ warnings = <<>>
    /\ shows = 0
    /\ reports = 0
    /\ lastProgressReport = 0
    /\ progressSum = 0

\* The plan of a probe whose attempt never settles (spec section 4.1, the
\* hung probe).
NeverSettles == 0 - 1

\* The probe of spec section 8: it first succeeds on attempt k.
ScriptedProbe(k, attempt) ==
    IF k = NeverSettles THEN "hang"
    ELSE IF k # 0 /\ attempt >= k THEN "return" ELSE "throw"

\* Time passes while the loop awaits the attempt in flight: nothing looks at
\* the deadline.
AwaitAttempt_checksDeadline(w, t) ==
    IF t >= w.start + w.timeout THEN [w EXCEPT !.pc = "done", !.result = "undefined"] ELSE w

AwaitAttempt(w, t) == w

InitRetry ==
    /\ now = 0
    /\ plan \in (0..MaxPlan) \cup {NeverSettles}
    /\ \E T \in 0..MaxRetryTimeout : \E i \in 1..MaxRetryInterval :
          waits = <<retryUntilTimeout(T, i, 0)>>
    /\ lastLatency = 0
    /\ failedLatency = 0
    /\ returnedAt = IF waits[1].pc = "done" THEN 0 ELSE -1
    /\ OrchIdle
    /\ BindIdle
    /\ PortIdle

\* The attempt in flight settles.
RetryProbeSettles ==
    /\ waits[1].pc = "attempt"
    /\ ScriptedProbe(plan, waits[1].attempts) # "hang"
    /\ LET w == waits[1]
           took == now - w.attemptStart
           after == IF ScriptedProbe(plan, w.attempts) = "return"
                    THEN RetrySuccess(w, "value", now)
                    ELSE RetryFailure(w, now)
       IN  /\ waits' = <<after>>
           /\ lastLatency' = took
           /\ failedLatency' = IF ScriptedProbe(plan, w.attempts) = "return"
                               THEN failedLatency ELSE failedLatency + took
           /\ returnedAt' = IF after.pc = "done" THEN now ELSE returnedAt
    /\ UNCHANGED <<now, plan, orchVars, bindVars,
                   portVars>>

\* The sleep between attempts is over.
RetrySleepOver ==
    /\ waits[1].pc = "sleep"
    /\ waits[1].wake <= now
    /\ LET after == RetryWake(waits[1], now)
       IN  /\ waits' = <<after>>
           /\ returnedAt' = IF after.pc = "done" THEN now ELSE returnedAt
    /\ UNCHANGED <<now, plan, lastLatency, failedLatency, orchVars, bindVars,
                   portVars>>

TickRetry ==
    /\ Tick(1, MaxLatency)
    /\ UNCHANGED <<waits, retryVars, orchVars, bindVars,
                   portVars>>

\* The attempt in flight does not settle, and time passes, to MaxOverrun
\* past the deadline.
RetryHangs ==
    /\ waits[1].pc = "attempt"
    /\ ScriptedProbe(plan, waits[1].attempts) = "hang"
    /\ TimerDue(waits[1], MaxLatency)
    /\ now < waits[1].start + waits[1].timeout + MaxOverrun
    /\ now' = now + 1
    /\ LET after == AwaitAttempt(waits[1], now')
       IN  /\ waits' = <<after>>
           /\ returnedAt' = IF after.pc = "done" THEN now' ELSE returnedAt
    /\ UNCHANGED <<plan, lastLatency, failedLatency, orchVars, bindVars, portVars>>

NextRetry ==
    \/ RetryProbeSettles
    \/ RetrySleepOver
    \/ TickRetry
    \/ RetryHangs

SpecRetry == InitRetry /\ [][NextRetry]_vars

Returned == waits[1].pc = "done"
Elapsed == returnedAt - waits[1].start

\* C7: with a probe that fails on every attempt, retryUntilTimeout returns
\* absence (it does not raise), for every timeout T >= 0, and it returns when
\* the time since the call is at least T and below T + interval + the time
\* the last attempt took.
C7_AbsenceWithinBounds ==
    /\ waits[1].result \in {"pending", "undefined", "value"}
    /\ (plan = 0 /\ Returned)
       => /\ waits[1].result = "undefined"
          /\ Elapsed >= waits[1].timeout
          /\ Elapsed < waits[1].timeout + waits[1].interval + lastLatency

\* Several failed attempts, the last of which took time, and absence
\* returned after the deadline.
C7_Witness ==
    /\ plan = 0
    /\ Returned
    /\ waits[1].attempts >= 2
    /\ lastLatency > 0
    /\ Elapsed > waits[1].timeout

\* C8 as stated: for T > 0 and a probe that first succeeds on attempt k with
\* k * interval < T, the success value is returned after exactly k attempts.
C8_Original ==
    (Returned /\ waits[1].timeout > 0 /\ plan >= 1
        /\ plan * waits[1].interval < waits[1].timeout)
    => waits[1].result = "value" /\ waits[1].attempts = plan

\* C8, amended: no attempt is made after the first success, and for T > 0
\* the success value is returned after exactly k attempts whenever attempt k
\* begins before T has elapsed: (k - 1) * interval plus the time the failed
\* attempts took is below T.
C8_FirstSuccessReturned ==
    /\ plan >= 1 => waits[1].attempts <= plan
    /\ (Returned /\ waits[1].timeout > 0 /\ plan >= 1
           /\ (plan - 1) * waits[1].interval + failedLatency < waits[1].timeout)
       => waits[1].result = "value" /\ waits[1].attempts = plan

\* The probe succeeded on its third attempt, after failed attempts that took
\* time.
C8_Witness ==
    /\ Returned
    /\ plan = 3
    /\ waits[1].result = "value"
    /\ waits[1].attempts = 3
    /\ failedLatency > 0

(***************************************************************************)
(* SpecBind: waitUntilServerPortIsAvailable over isServerPortAvailable, on *)
(* one port that another process may hold.  The clock steps by the retry  *)
(* interval; a bind is answered in the tick it is asked in.                *)
(***************************************************************************)
\* isServerPortAvailable, lines 86-88: what the promise resolves with on the
\* server's event.
isServerPortAvailable(event) ==
    CASE event = "listening" -> "true"
      [] event = "error" -> "false"

\* closeServer: server.close() gives up the server's listening handle, if it
\* has one, when it is called; the callback only resolves a promise that
\* isServerPortAvailable does not wait for.
closeServer_leak(held, server) == held

closeServer(held, server) == held \ {server}

\* Lines 58-65, the callback given to retryUntilTimeout: return true when
\* the port is available, throw otherwise.
BindCallback(available) == IF available = "true" THEN "return" ELSE "throw"

\* Lines 68-71: the boolean returned for what retryUntilTimeout returned.
WaitReturn_raw(portIsOpen) == portIsOpen

WaitReturn(portIsOpen) == IF portIsOpen = "true" THEN "true" ELSE "false"

BindTimeouts == {k * BIND_RETRY_INTERVAL : k \in 0..MaxBindTimeoutSteps}
                   \cup {DEFAULT_BIND_TIMEOUT}

InitBind ==
    /\ now = 0
    /\ waits = <<>>
    /\ listeners = {}
    /\ external \in BOOLEAN
    /\ servers = 0
    /\ delivered = <<>>
    /\ waitResult = "none"
    /\ RetryIdle
    /\ OrchIdle
    /\ PortIdle

\* Lines 52-67: waitUntilServerPortIsAvailable is called, once the call
\* before it has returned; unless the timeout is 0 the first attempt creates
\* a test server and asks it to listen (lines 84-94).
CallWait(timeout) ==
    /\ AllDone(waits)
    /\ Len(calls) < MaxBindCalls
    /\ LET w == retryUntilTimeout(timeout, BIND_RETRY_INTERVAL, now)
       IN  /\ waits' = <<w>>
           /\ servers' = servers + (IF w.pc = "attempt" THEN 1 ELSE 0)
           /\ waitResult' = IF Running(w) THEN "pending" ELSE WaitReturn(w.result)
    /\ calls' = Append(calls, [port |-> CallPorts[1], timeout |-> timeout])
    /\ UNCHANGED <<now, listeners, external, delivered, retryVars, envVars, session,
                   subscriptions, reports, lastProgressReport, progressSum, uiVars,
                   phase, raceResult,
                   portVars>>

\* Lines 86-96 and 59-71, the test server's event: "listening" when nothing
\* holds the port (the server then holds it), "error" otherwise; the promise
\* settles, its finally closes the server, and the result reaches the
\* callback, which returns or throws.
BindEvent ==
    /\ waits # <<>>
    /\ waits[1].pc = "attempt"
    /\ LET free == ~external /\ listeners = {}
           event == IF free THEN "listening" ELSE "error"
           bound == IF free THEN listeners \cup {servers} ELSE listeners
           released == closeServer(bound, servers)
           available == isServerPortAvailable(event)
           w == IF BindCallback(available) = "return"
                THEN RetrySuccess(waits[1], available, now)
                ELSE RetryFailure(waits[1], now)
       IN  /\ listeners' = released
           /\ delivered' = Append(delivered,
                                  [wait |-> Len(calls), value |-> available,
                                   held |-> servers \in released,
                                   unused |-> ~external, at |-> now])
           /\ waits' = <<w>>
           /\ waitResult' = IF Running(w) THEN waitResult ELSE WaitReturn(w.result)
    /\ UNCHANGED <<now, external, servers, retryVars, orchVars,
                   portVars>>

\* The sleep between two attempts is over: absence is returned, and turned
\* into false; or the next attempt creates its test server.
BindSleepOver ==
    /\ waits # <<>>
    /\ waits[1].pc = "sleep"
    /\ waits[1].wake <= now
    /\ LET w == RetryWake(waits[1], now)
       IN  /\ waits' = <<w>>
           /\ servers' = servers + (IF w.pc = "attempt" THEN 1 ELSE 0)
           /\ waitResult' = IF Running(w) THEN waitResult ELSE WaitReturn(w.result)
    /\ UNCHANGED <<now, listeners, external, delivered, retryVars, orchVars,
                   portVars>>

\* Another process takes the port, or gives it up.
ExternalBinds ==
    /\ ~external
    /\ listeners = {}
    /\ external' = TRUE
    /\ UNCHANGED <<now, waits, listeners, servers, delivered, waitResult, retryVars,
                   orchVars,
                   portVars>>

ExternalReleases ==
    /\ external
    /\ external' = FALSE
    /\ UNCHANGED <<now, waits, listeners, servers, delivered, waitResult, retryVars,
                   orchVars,
                   portVars>>

TickBind ==
    /\ Tick(BIND_RETRY_INTERVAL, 0)
    /\ UNCHANGED <<waits, bindVars, retryVars, orchVars,
                   portVars>>

NextBind ==
    \/ \E timeout \in BindTimeouts : CallWait(timeout)
    \/ BindEvent
    \/ BindSleepOver
    \/ ExternalBinds
    \/ ExternalReleases
    \/ TickBind

SpecBind == InitBind /\ [][NextBind]_vars

\* The probe results delivered to the running (or last) call.
OwnResults == {k \in DOMAIN delivered : delivered[k].wait = Len(calls)}

\* C9: waitUntilServerPortIsAvailable returns a boolean, never absence: true
\* exactly when an attempt made before the deadline reported the port
\* available, false once the deadline has passed with every attempt
\* reporting it unavailable.
C9_WaitReturnsBoolean ==
    /\ waitResult \in {"none", "pending", "true", "false"}
    /\ (waits # <<>> /\ Running(waits[1]))
       => /\ waitResult = "pending"
          /\ \A k \in OwnResults : delivered[k].value = "false"
    /\ (waits # <<>> /\ ~Running(waits[1]))
       => /\ waitResult \in {"true", "false"}
          /\ waitResult = "true"
             <=> \E k \in OwnResults :
                    /\ delivered[k].value = "true"
                    /\ delivered[k].at < waits[1].start + waits[1].timeout
          /\ waitResult = "false"
             => /\ now >= waits[1].start + waits[1].timeout
                /\ \A k \in OwnResults : delivered[k].value = "false"

\* A call returned false after several attempts, all unavailable.
C9_Witness ==
    /\ waits # <<>>
    /\ waitResult = "false"
    /\ Cardinality(OwnResults) >= 2

\* C10: when the result of isServerPortAvailable is delivered, its test
\* server no longer holds the port, whether the bind succeeded or failed:
\* no listener outlives its call, so every call on a port that no other
\* process holds reports it available, two calls in succession included.
C10_ListenerReleased ==
    /\ listeners = {}
    /\ \A k \in DOMAIN delivered :
          /\ ~delivered[k].held
          /\ delivered[k].unused => delivered[k].value = "true"

\* After a failed bind, two calls in succession found the port available.
C10_Witness ==
    \E k \in DOMAIN delivered :
       /\ k + 2 \in DOMAIN delivered
       /\ delivered[k].value = "false"
       /\ delivered[k + 1].value = "true" /\ delivered[k + 1].unused
       /\ delivered[k + 2].value = "true" /\ delivered[k + 2].unused

(***************************************************************************)
(* SpecPort: suggestPort.  Each trip round its loop creates a test server  *)
(* and asks it to listen on port 0; the OS assigns an ephemeral port, or   *)
(* the listen fails.                                                       *)
(***************************************************************************)
\* Lines 292-299.
UNSAFE_PORTS ==
    {1, 7, 9, 11, 13, 15, 17, 19, 20, 21, 22, 23, 25, 37, 42, 43, 53, 69, 77, 79,
     87, 95, 101, 102, 103, 104, 109, 110, 111, 113, 115, 117, 119, 123, 135, 137,
     139, 143, 161, 179, 389, 427, 465, 512, 513, 514, 515, 526, 530, 531, 532,
     540, 548, 554, 556, 563, 587, 601, 636, 989, 990, 993, 995, 1719, 1720, 1723,
     2049, 3659, 4045, 5060, 5061, 6000, 6566, 6665, 6666, 6667, 6668, 6669, 6697,
     10080}

\* The ports the OS assigns to a listen on port 0: the ends of the port
\* range, unsafe ports, and their neighbours.
EphemeralPorts == {1, 2, 1024, 5060, 5062, 6000, 6669, 6670, 10080, 10081, 32768, 65535}

\* Line 270: the assigned port is on the list.
IsUnsafe_never(p) == FALSE

IsUnsafe(p) == p \in UNSAFE_PORTS

InitPort ==
    /\ now = 0
    /\ waits = <<>>
    /\ PortIdle
    /\ RetryIdle
    /\ BindIdle
    /\ OrchIdle

\* Lines 252-267: suggestPort is called; the first test server is created and
\* asked to listen on port 0.
CallSuggest ==
    /\ portPc = "idle"
    /\ portPc' = "binding"
    /\ UNCHANGED <<now, waits, assigned, portHeld, suggested, orchVars, retryVars,
                   bindVars>>

\* Lines 257-273, "listening": the promise resolves with the assigned port,
\* its finally closes the server, and the port is returned unless it is
\* unsafe; then the loop creates the next server.
PortListening(p) ==
    /\ portPc = "binding"
    /\ Len(assigned) < MaxBinds
    /\ LET server == Len(assigned) + 1
       IN  /\ assigned' = Append(assigned, p)
           /\ portHeld' = closeServer(portHeld \cup {server}, server)
    /\ IF IsUnsafe(p)
       THEN UNCHANGED <<portPc, suggested>>
       ELSE portPc' = "returned" /\ suggested' = p
    /\ UNCHANGED <<now, waits, orchVars, retryVars, bindVars>>

\* Lines 260-269, "error": the promise rejects, its finally closes the
\* server, and the await throws out of suggestPort.
PortError ==
    /\ portPc = "binding"
    /\ portPc' = "threw"
    /\ UNCHANGED <<now, waits, assigned, portHeld, suggested, orchVars, retryVars,
                   bindVars>>

NextPort ==
    \/ CallSuggest
    \/ \E p \in EphemeralPorts : PortListening(p)
    \/ PortError

SpecPort == InitPort /\ [][NextPort]_vars

\* C11: a port suggestPort returns is in 1..65535 and not an unsafe port: it
\* is the port the OS assigned last, every port assigned before it was
\* unsafe and was discarded, and while the call runs every port assigned so
\* far was unsafe.
C11_SuggestedPortIsSafe ==
    /\ portPc = "returned" <=> suggested # 0
    /\ portPc = "returned"
       => /\ suggested \in 1..65535
          /\ suggested \notin UNSAFE_PORTS
          /\ suggested = assigned[Len(assigned)]
          /\ \A k \in 1..(Len(assigned) - 1) : assigned[k] \in UNSAFE_PORTS
    /\ portPc \in {"binding", "threw"}
       => \A k \in DOMAIN assigned : assigned[k] \in UNSAFE_PORTS

\* Two unsafe ports were assigned and discarded before a safe one was
\* returned.
C11_Witness ==
    /\ portPc = "returned"
    /\ Len(assigned) = 3
    /\ assigned[1] \in UNSAFE_PORTS
    /\ assigned[2] \in UNSAFE_PORTS

(***************************************************************************)
(* SpecBrowser: openBrowser, called by the extension with the url of a    *)
(* port or with about:blank, under every setting of shiny.previewType.    *)
(***************************************************************************)
BrowserUrls == {"about:blank", "http://localhost:3838", "http://localhost:3839"}

InitBrowser ==
    /\ now = 0
    /\ waits = <<>>
    /\ previewType \in PreviewSettings
    /\ hostPreview = FALSE
    /\ session = [port |-> CallPorts[1], additionalPorts |-> <<>>, terminal |-> "none",
                  timeout |-> 0]
    /\ calls = <<>>
    /\ phase = "idle"
    /\ raceResult = "pending"
    /\ termExit = FALSE
    /\ closedTerminals = {}
    /\ subscriptions = 0
    /\ openPorts = {}
    /\ openedInTime = FALSE
    /\ lastAnswer = "none"
    /\ launches = <<>>
    /\ presented = <<>>
    /\ prompts = 0
    /\ offered = <<>>
    /\ errors = 0
    /\ warnings = <<>>
    /\ shows = 0
    /\ reports = 0
    /\ lastProgressReport = 0
    /\ progressSum = 0
    /\ RetryIdle
    /\ BindIdle
    /\ PortIdle

\* Lines 220-250: openBrowser(url) reads the setting, asks for the host's
\* preview hook, and performs its case.
CallOpenBrowser(url) ==
    /\ Len(launches) < MaxOpenCalls
    /\ launches' = Append(launches, url)
    /\ hostPreview' \in BOOLEAN
    /\ presented' = presented \o openBrowser(url, configShinyPreviewType(previewType),
                                             hostPreview')
    /\ UNCHANGED <<now, waits, envVars, sessionVars, lastAnswer, prompts, offered,
                   errors, warnings, shows, phase, raceResult, retryVars, bindVars,
                   portVars>>

\* The user changes shiny.previewType between two calls.
Configure(setting) ==
    /\ setting # previewType
    /\ previewType' = setting
    /\ UNCHANGED <<now, waits, termExit, closedTerminals, openPorts, openedInTime,
                   sessionVars, uiVars, phase, raceResult, retryVars, bindVars,
                   portVars>>

NextBrowser ==
    \/ \E url \in BrowserUrls : CallOpenBrowser(url)
    \/ \E setting \in PreviewSettings : Configure(setting)

SpecBrowser == InitBrowser /\ [][NextBrowser]_vars

LastUrl == launches'[Len(launches')]
ViewerCommand == <<[action |-> "simpleBrowser", url |-> LastUrl]>>
HostHook == <<[action |-> "hostPreview", url |-> LastUrl]>>
ExternalOpen == <<[action |-> "openExternal", url |-> LastUrl]>>
ActionsOfCall == SubSeq(presented', Len(presented) + 1, Len(presented'))

\* C12 as stated: an unset value, like any value that is none of the three
\* modes, calls the in-editor viewer command.
C12_Original ==
    [][launches' # launches
       => /\ previewType \in {"other", "unset", ""} => ActionsOfCall = ViewerCommand
          /\ previewType = "internal"
             => ActionsOfCall = IF hostPreview' THEN HostHook ELSE ViewerCommand
      ]_vars

\* C12, amended: one call of openBrowser performs at most one presentation
\* action, chosen by the setting: none for "none"; external-open for
\* "external", nothing for about:blank; for "internal", and for an unset or
\* empty setting, the host's preview hook when there is one and the viewer
\* command otherwise; the viewer command for any other value.
C12_OnePresentationAction ==
    [][launches' # launches
       => /\ presented' = presented \o ActionsOfCall
          /\ Len(ActionsOfCall) <= 1
          /\ previewType = "none" => ActionsOfCall = <<>>
          /\ previewType = "external"
             => ActionsOfCall = IF LastUrl = "about:blank" THEN <<>> ELSE ExternalOpen
          /\ previewType \in {"internal", "unset", ""}
             => ActionsOfCall = IF hostPreview' THEN HostHook ELSE ViewerCommand
          /\ previewType \notin {"none", "external", "internal", "unset", ""}
             => ActionsOfCall = ViewerCommand
      ]_vars

\* about:blank was given to an external preview, which did nothing; then,
\* with the setting unset and a host hook, the hook was called.
C12_Witness ==
    /\ launches = <<"about:blank", "http://localhost:3838">>
    /\ presented = <<[action |-> "hostPreview", url |-> "http://localhost:3838"]>>
    /\ previewType = "unset"

(***************************************************************************)
(* SpecLive: openBrowserWhenReady under the fairness of the event loop: a  *)
(* timer that is due fires, a socket event that can arrive arrives, a     *)
(* promise that has settled is followed up, and time passes.  The user    *)
(* and the environment owe nothing.  The call is one with an internal     *)
(* preview, and a short or the default timeout.                            *)
(***************************************************************************)
InitLive ==
    /\ Init
    /\ previewType = "internal"
    /\ session.timeout \in {ShortTimeoutSteps * DEFAULT_RETRY_INTERVAL,
                            configShinyTimeoutOpenBrowser(DEFAULT_TIMEOUT_SECONDS)}

Fairness ==
    /\ WF_vars(Enter)
    /\ \A i \in DOMAIN CallPorts :
          /\ WF_vars(i \in DOMAIN waits /\ \E event \in SocketEvents : ProbeSettle(i, event))
          /\ WF_vars(i \in DOMAIN waits /\ Wake(i))
    /\ WF_vars(Inspect)
    /\ WF_vars(Launch)
    /\ WF_vars(TickOrch)

SpecLive == InitLive /\ [][Next]_vars /\ Fairness

\* C13: every probing session ends: it goes on to the launch, to the prompt
\* or to the terminal-closed return; its waits, abandoned ones included,
\* all return; and no attempt of a wait starts at or after the session's
\* deadline.
C13_SessionEnds ==
    /\ [](\A i \in DOMAIN waits :
             waits[i].attempts >= 1
             => waits[i].attemptStart < waits[i].start + session.timeout)
    /\ (phase = "probing") ~> (phase \in {"resolving", "prompt", "done"})
    /\ (~AllDone(waits)) ~> AllDone(waits)

\* A session with two ports has ended in the prompt after the deadline, its
\* waits having made several attempts.
C13_Witness ==
    /\ phase = "prompt"
    /\ Len(waits) = 2
    /\ \A i \in DOMAIN waits : waits[i].attempts >= 2 /\ waits[i].result = "undefined"
    /\ now >= waits[1].start + session.timeout

(***************************************************************************)
(* Further properties of openBrowserWhenReady, checked under Spec.         *)
(***************************************************************************)
\* C14: when the race resolved with the array of results and the terminal
\* has an exit status as the result is inspected, the invocation ends with
\* the terminal-closed warning: no preview is launched and no prompt shown,
\* then or later, also when every port was reported open.
C14_ExitedTerminalBlocksLaunch ==
    [][/\ (phase = "probing" /\ phase' # "probing" /\ raceResult = "array"
              /\ TerminalExited)
          => /\ phase' = "done"
             /\ warnings' = Append(warnings, "terminal closed")
             /\ launches' = launches
             /\ presented' = presented
             /\ prompts' = prompts
       /\ (phase = "done" /\ raceResult = "array" /\ launches = <<>>)
          => /\ launches' = launches
             /\ presented' = presented
             /\ prompts' = prompts
      ]_vars

\* Both ports were reported open and the array won the race; the terminal
\* exited before the result was inspected, and nothing was launched.
C14_Witness ==
    /\ phase = "done"
    /\ raceResult = "array"
    /\ Len(waits) = 2
    /\ AllPortsReportedOpen
    /\ termExit
    /\ launches = <<>>
    /\ prompts = 0
    /\ warnings = <<"terminal closed">>

\* C15: answering the prompt with "Show Shiny process" reveals the terminal
\* and ends the invocation with the failed-to-connect warning; dismissing
\* the prompt does the same without revealing the terminal; either way no
\* session is started and nothing is launched, then or later.
C15_ShowProcessStops ==
    [][/\ (phase = "prompt" /\ phase' # "prompt"
              /\ lastAnswer' \in {"Show Shiny process", "undefined"})
          => /\ shows' = shows + (IF lastAnswer' = "Show Shiny process" THEN 1 ELSE 0)
             /\ phase' = "done"
             /\ warnings' = Append(warnings, "failed to connect")
             /\ calls' = calls
             /\ waits' = waits
             /\ launches' = launches
             /\ errors' = errors
       /\ (phase = "done" /\ lastAnswer \in {"Show Shiny process", "undefined"})
          => /\ phase' = "done"
             /\ calls' = calls
             /\ waits' = waits
             /\ launches' = launches
             /\ shows' = shows
             /\ prompts' = prompts
      ]_vars

\* After one escalation the second prompt was answered with "Show Shiny
\* process": the terminal was revealed once and nothing was launched.
C15_Witness ==
    /\ phase = "done"
    /\ lastAnswer = "Show Shiny process"
    /\ Len(calls) = 2
    /\ shows = 1
    /\ prompts = 2
    /\ launches = <<>>

OfferedItems == {offered[k] : k \in DOMAIN offered}

\* C16 as stated: without a terminal, "Keep waiting" is the only item of the
\* prompt.
C16_Original ==
    (phase = "prompt" /\ session.terminal = "none") => OfferedItems = {"Keep waiting"}

\* C16, amended: without a terminal the prompt has no "Show Shiny process"
\* item: its items are an item with an empty title and "Keep waiting", the
\* terminal is never revealed, and choosing the empty item ends the
\* invocation like a dismissal.
C16_NoShowProcessWithoutTerminal ==
    /\ [](session.terminal = "none"
            => /\ shows = 0
               /\ phase = "prompt" => offered = <<"", "Keep waiting">>)
    /\ []((phase = "prompt" /\ session.terminal # "none")
            => offered = <<"Show Shiny process", "Keep waiting">>)
    /\ [][(phase = "prompt" /\ phase' # "prompt" /\ lastAnswer' = "")
          => /\ session.terminal = "none"
             /\ phase' = "done"
             /\ warnings' = Append(warnings, "failed to connect")
             /\ calls' = calls
             /\ launches' = launches
         ]_vars

\* Without a terminal the prompt was shown and its empty item chosen.
C16_Witness ==
    /\ session.terminal = "none"
    /\ phase = "done"
    /\ prompts = 1
    /\ offered = <<"", "Keep waiting">>
    /\ lastAnswer = ""

\* C17: every attempt reports the time since the report before it, of
\* whichever port, as a share of the session's timeout, and never a negative
\* one: the increments of a session add up to the time from the session's
\* start to its last report.  A session started by an escalation begins at
\* nothing, with the new timeout.
C17_ProgressIsAdditive ==
    /\ [](waits # <<>>
            => /\ progressSum = lastProgressReport - waits[1].start
               /\ progressSum >= 0
               /\ \A i \in DOMAIN waits :
                     /\ waits[i].start = waits[1].start
                     /\ waits[i].timeout = session.timeout)
    /\ [][/\ (reports' # reports /\ calls' = calls)
             => /\ reports' = reports + 1
                /\ progressSum' - progressSum = now - lastProgressReport
                /\ now >= lastProgressReport
                /\ lastProgressReport' = now
          /\ (calls' # calls /\ waits' # <<>>)
             => /\ progressSum' = 0
                /\ lastProgressReport' = now
                /\ reports' = Len(waits')
                /\ waits'[1].start = now
         ]_vars

\* In a session of two ports started by an escalation, reports were made at
\* three different times.
C17_Witness ==
    /\ Len(calls) = 2
    /\ Len(waits) = 2
    /\ reports >= 5
    /\ waits[1].attempts >= 3
    /\ waits[2].attempts >= 2
    /\ progressSum > 0

C19_SessionsDoNotOverlap ==
    /\ []((phase \in {"prompt", "resolving"} \/ raceResult = "array") => AllDone(waits))
    /\ [][(calls' # calls /\ calls # <<>>)
          => /\ phase = "prompt"
             /\ raceResult = "array"
             /\ AllDone(waits)
             /\ \A i \in DOMAIN waits : waits[i].result \in {"true", "undefined"}
             /\ \A i \in DOMAIN waits' : waits'[i].start = now /\ waits'[i].attempts = 1
         ]_vars

\* The escalated session of a call with two ports and a terminal is probing,
\* with attempts in flight.
C19_Witness ==
    /\ Len(calls) = MaxSessions
    /\ phase = "probing"
    /\ Len(waits) = 2
    /\ session.terminal # "none"
    /\ \A i \in DOMAIN waits : waits[i].pc = "attempt" /\ waits[i].attempts >= 2

(***************************************************************************)
(* A further property of retryUntilTimeout, checked under SpecRetry.       *)
(***************************************************************************)
\* C18: retryUntilTimeout looks at the deadline only at the head of its loop:
\* it returns absence only out of the sleep between two attempts (or at the
\* call), and while an attempt is in flight it returns only by that
\* attempt's success; with an attempt that never settles it has not
\* returned, however long ago the timeout elapsed.
C18_HungProbeHoldsRetry ==
    /\ [](plan = NeverSettles /\ waits[1].timeout > 0
            => /\ ~Returned
               /\ returnedAt = 0 - 1
               /\ waits[1].pc = "attempt"
               /\ waits[1].attempts = 1)
    /\ [][(~Returned /\ Returned')
          => IF waits[1].pc = "attempt"
             THEN /\ waits'[1].result = "value"
                  /\ ScriptedProbe(plan, waits[1].attempts) = "return"
                  /\ now' = now
             ELSE /\ waits[1].pc = "sleep"
                  /\ waits'[1].result = "undefined"
                  /\ now >= waits[1].start + waits[1].timeout
         ]_vars

\* The first attempt is still in flight MaxOverrun after the deadline.
C18_Witness ==
    /\ plan = NeverSettles
    /\ waits[1].timeout > 0
    /\ waits[1].pc = "attempt"
    /\ now = waits[1].start + waits[1].timeout + MaxOverrun

====
